---- MODULE Spec2Model ----
(***************************************************************************)
(* Manifold-Drift: the Player's per-frame stepper (flat and curved mode),  *)
(* the keyboard map, the App's mode / manifold / pose state and the sphere *)
(* geodesic sampler of src/src/App.jsx.                                    *)
(*                                                                         *)
(* JavaScript numbers are IEEE doubles.  They are modelled as decimal      *)
(* floating-point numbers <<m, e>> (value m * 10^e) with a mantissa of     *)
(* four significant digits; every arithmetic operation rounds its result  *)
(* to that format, the way every double operation rounds to 53 bits.      *)
(* Literals of the source (2.8, 9.8, 0.15, 1e-4, 1.2, ...) are exact in    *)
(* this format.  An angle is carried as its <<sin, cos>> pair.             *)
(***************************************************************************)
EXTENDS Integers, Sequences, FiniteSets, TLC

(* ---------------------------------------------------------------------- *)
(* Floating-point arithmetic                                              *)
(*                                                                        *)
(* Every operator binds its arguments once ("a \in {x}") before using     *)
(* them, so that an argument expression is evaluated a single time.        *)
(* ---------------------------------------------------------------------- *)

\* the element of a one-element set
Only(S) == CHOOSE v \in S : TRUE

\* 10^4: mantissas are kept in 1000 .. 9999 (or 0)
Mant == 10 ^ 4

Abs(n) == IF n < 0 THEN -n ELSE n

Sgn(n) == IF n < 0 THEN -1 ELSE IF n > 0 THEN 1 ELSE 0

\* the number of decimal digits of a in 1 .. 2^31 - 1
NumDigits(a) ==
  IF a < 10 ^ 5
  THEN IF a < 100 THEN (IF a < 10 THEN 1 ELSE 2)
       ELSE IF a < 1000 THEN 3 ELSE IF a < 10 ^ 4 THEN 4 ELSE 5
  ELSE IF a < 10 ^ 7 THEN (IF a < 10 ^ 6 THEN 6 ELSE 7)
       ELSE IF a < 10 ^ 8 THEN 8 ELSE IF a < 10 ^ 9 THEN 9 ELSE 10

\* a > 0 with k digits, rounded to four digits (half away from zero), sign sg
Round4(sg, a, k, e) ==
  IF k > 4
  THEN Only({ IF r = Mant THEN <<sg * (Mant \div 10), e + k - 3>>
                          ELSE <<sg * r, e + k - 4>> :
              r \in {(a + (10 ^ (k - 4)) \div 2) \div (10 ^ (k - 4))} })
  ELSE <<sg * a * 10 ^ (4 - k), e - (4 - k)>>

\* the float nearest to the integer m times 10^e
Fl(m, e) ==
  Only({ IF n = 0 THEN <<0, 0>> ELSE Round4(Sgn(n), Abs(n), NumDigits(Abs(n)), f) :
         n \in {m}, f \in {e} })

\* the float with value n / 10^d
Dec(n, d) == Fl(n, -d)

Zero == <<0, 0>>
One == <<1000, -3>>

Neg(x) == Only({ <<-a[1], a[2]>> : a \in {x} })

\* a + b for floats a, b with a[2] >= b[2], neither zero
AddOrdered(hi, lo) ==
  IF hi[2] - lo[2] > 4 THEN hi ELSE Fl(hi[1] * 10 ^ (hi[2] - lo[2]) + lo[1], lo[2])

Add(x, y) ==
  Only({ IF a[1] = 0 THEN b
         ELSE IF b[1] = 0 THEN a
         ELSE IF a[2] >= b[2] THEN AddOrdered(a, b) ELSE AddOrdered(b, a) :
         a \in {x}, b \in {y} })

Sub(x, y) == Add(x, Neg(y))

Mul(x, y) == Only({ Fl(a[1] * b[1], a[2] + b[2]) : a \in {x}, b \in {y} })

\* x / y for y # 0
Div(x, y) ==
  Only({ Fl(Sgn(a[1]) * Sgn(b[1]) * ((Abs(a[1]) * 10 ^ 5) \div Abs(b[1])),
            a[2] - b[2] - 5) : a \in {x}, b \in {y} })

Lt(x, y) == Sub(x, y)[1] < 0
Gt(x, y) == Lt(y, x)
IsZero(x) == x[1] = 0

\* Math.max, Math.min
Max(x, y) == Only({ IF Lt(a, b) THEN b ELSE a : a \in {x}, b \in {y} })
Min(x, y) == Only({ IF Lt(b, a) THEN b ELSE a : a \in {x}, b \in {y} })

RECURSIVE ISqrtIn(_, _, _)
\* the largest r in lo .. hi with r * r <= n
ISqrtIn(n, lo, hi) ==
  IF lo >= hi THEN lo
  ELSE Only({ IF mid * mid <= n THEN ISqrtIn(n, mid, hi) ELSE ISqrtIn(n, lo, mid - 1) :
              mid \in {(lo + hi + 1) \div 2} })

\* the integer nearest to the square root of n
ISqrt(n) ==
  Only({ IF (r + 1) * (r + 1) - n < n - r * r THEN r + 1 ELSE r :
         r \in {ISqrtIn(n, 0, 40000)} })

\* Math.sqrt for x >= 0
Sqrt(x) ==
  Only({ IF a[1] <= 0 THEN Zero
         ELSE IF (a[2] % 2) # 0 THEN Fl(ISqrt(a[1] * 10 ^ 5), (a[2] - 5) \div 2)
         ELSE Fl(ISqrt(a[1] * 10 ^ 4), (a[2] - 4) \div 2) :
         a \in {x} })

(* ---------------------------------------------------------------------- *)
(* THREE.Vector2 / Vector3, as far as App.jsx uses them                   *)
(* ---------------------------------------------------------------------- *)

V3Zero == <<Zero, Zero, Zero>>

Dot3(u, v) ==
  Only({ Add(Add(Mul(a[1], b[1]), Mul(a[2], b[2])), Mul(a[3], b[3])) :
         a \in {u}, b \in {v} })
LengthSq3(u) == Dot3(u, u)
Scale3(u, s) ==
  Only({ <<Mul(a[1], t), Mul(a[2], t), Mul(a[3], t)>> : a \in {u}, t \in {s} })
Add3(u, v) ==
  Only({ <<Add(a[1], b[1]), Add(a[2], b[2]), Add(a[3], b[3])>> : a \in {u}, b \in {v} })
Sub3(u, v) ==
  Only({ <<Sub(a[1], b[1]), Sub(a[2], b[2]), Sub(a[3], b[3])>> : a \in {u}, b \in {v} })
Negate3(u) == Only({ <<Neg(a[1]), Neg(a[2]), Neg(a[3])>> : a \in {u} })
Cross3(u, v) ==
  Only({ << Sub(Mul(a[2], b[3]), Mul(a[3], b[2])),
            Sub(Mul(a[3], b[1]), Mul(a[1], b[3])),
            Sub(Mul(a[1], b[2]), Mul(a[2], b[1])) >> : a \in {u}, b \in {v} })

\* length() || 1
LengthOr1(len) == Only({ IF IsZero(l) THEN One ELSE l : l \in {len} })

\* Vector3.normalize(): divideScalar(length() || 1), divideScalar(s) = multiplyScalar(1 / s)
Normalize3(u) ==
  Only({ Scale3(a, Div(One, LengthOr1(Sqrt(LengthSq3(a))))) : a \in {u} })

LengthSq2(u) == Only({ Add(Mul(a[1], a[1]), Mul(a[2], a[2])) : a \in {u} })
Scale2(u, s) == Only({ <<Mul(a[1], t), Mul(a[2], t)>> : a \in {u}, t \in {s} })
Add2(u, v) == Only({ <<Add(a[1], b[1]), Add(a[2], b[2])>> : a \in {u}, b \in {v} })
Sub2(u, v) == Only({ <<Sub(a[1], b[1]), Sub(a[2], b[2])>> : a \in {u}, b \in {v} })
Normalize2(u) ==
  Only({ Scale2(a, Div(One, LengthOr1(Sqrt(LengthSq2(a))))) : a \in {u} })

(* ---------------------------------------------------------------------- *)
(* Angles.  An angle is its <<sin, cos>> pair; Math.atan2(x, z) is the     *)
(* direction of (x, z), Math.sin / Math.cos read the pair back, and a sum  *)
(* of angles is the product of the pairs.                                  *)
(* ---------------------------------------------------------------------- *)

AngleZero == <<Zero, One>>

\* Math.atan2(x, z); atan2(0, 0) = 0
Atan2(x, z) ==
  Only({ IF IsZero(h) THEN AngleZero ELSE <<Div(a, h), Div(b, h)>> :
         a \in {x}, b \in {z}, h \in {Sqrt(LengthSq2(<<x, z>>))} })

SinA(a) == a[1]
CosA(a) == a[2]

AngleAdd(x, y) ==
  Only({ << Add(Mul(SinA(a), CosA(b)), Mul(CosA(a), SinA(b))),
            Sub(Mul(CosA(a), CosA(b)), Mul(SinA(a), SinA(b))) >> :
         a \in {x}, b \in {y} })

(* ---------------------------------------------------------------------- *)
(* Chart math (App.jsx 9-32)                                              *)
(* ---------------------------------------------------------------------- *)

\* saddle coefficient k = 0.15
kSaddle == Dec(15, 2)

\* [s * x, s * y, (r2 - 1) / denom] with denom = r2 + 1, s = 2 / denom
stereoToSphere(c) ==
  Only({ Only({ <<Mul(Div(Fl(2, 0), denom), p[1]), Mul(Div(Fl(2, 0), denom), p[2]),
                  Div(Sub(r2, One), denom)>> : denom \in {Add(r2, One)} }) :
         p \in {c}, r2 \in {LengthSq2(c)} })

\* 2 / (1 + r2)
sphereLambda(c) == Div(Fl(2, 0), Add(One, LengthSq2(c)))

\* [x, y, (x * x - y * y) * k]
saddleEmbed(c) ==
  Only({ <<p[1], p[2], Mul(Sub(Mul(p[1], p[1]), Mul(p[2], p[2])), kSaddle)>> :
         p \in {c} })

\* 1 / sqrt(1 + 4 * k * k * (x * x + y * y))
saddleLambda(c) ==
  Div(One, Sqrt(Add(One, Mul(Mul(Mul(Fl(4, 0), kSaddle), kSaddle), LengthSq2(c)))))

(* ---------------------------------------------------------------------- *)
(* Player constants (App.jsx 122-127)                                     *)
(* ---------------------------------------------------------------------- *)

speed == Dec(28, 1)
jumpSpeed == Fl(4, 0)
gravity == Dec(-98, 1)
\* the floor below which the metric factor is not used (line 222)
lamFloor == Dec(1, 4)
\* the largest dt a frame integrates (line 148)
maxDt == Div(One, Fl(30, 0))
\* the ground plane y = 1 (line 182)
groundY == One

KeyCodes == {"KeyW", "KeyA", "KeyS", "KeyD", "Space"}
Modes == {"euclid", "riemann"}
Manifolds == {"sphere", "saddle"}

(* ---------------------------------------------------------------------- *)
(* Bounds of the model                                                    *)
(* ---------------------------------------------------------------------- *)

\* user-interface events (key, button, drag) followed in one behaviour
MaxEvents == 3
\* frames followed in one behaviour
MaxFrames == 2

\* the dt a frame may be given: none, a 30 Hz frame, a slow frame of 0.1 s
DtInputs == {Zero, Div(One, Fl(30, 0)), Dec(1, 1)}

\* camera world directions OrbitControls can leave the camera with: the initial
\* one (camera at [0, 2, 6] looking at the origin, yaw pi), its mirror image
\* (yaw 0) and an oblique one (yaw atan2(3, 4))
camInitial == <<Zero, Dec(-3162, 4), Dec(-9487, 4)>>
CamDirs == { camInitial,
             <<Zero, Dec(-3162, 4), Dec(9487, 4)>>,
             <<Dec(5692, 4), Dec(-3162, 4), Dec(7590, 4)>> }

(* ---------------------------------------------------------------------- *)
(* State                                                                  *)
(* ---------------------------------------------------------------------- *)

VARIABLES
  mode,           \* App: 'euclid' | 'riemann'
  manifold,       \* App: 'sphere' | 'saddle'
  showGeodesics,  \* App: tracers switch
  pose,           \* App: the pose last published by the Player, [pos, yaw]
  keys,           \* Player: keys.current, key code -> held (undefined reads as false)
  position,       \* Player: ref.current.position
  vel,            \* Player: vel.current
  chart,          \* Player: chart.current
  onGround,       \* Player: onGround.current
  camDir,         \* the camera's world direction
  sampled,        \* the key map as the last frame read it
  events,         \* user-interface events so far
  frames          \* frames so far

vars == <<mode, manifold, showGeodesics, pose, keys, position, vel, chart,
          onGround, camDir, sampled, events, frames>>

\* App's useState initial values and the Player's refs after its mount effect
Init ==
  /\ mode = "euclid"
  /\ manifold = "sphere"
  /\ showGeodesics = TRUE
  /\ pose = [pos |-> V3Zero, yaw |-> AngleZero]
  /\ keys = [k \in KeyCodes |-> FALSE]
  /\ position = <<Zero, Dec(12, 1), Fl(4, 0)>>
  /\ vel = V3Zero
  /\ chart = <<Zero, Zero>>
  /\ onGround = TRUE
  /\ camDir = camInitial
  /\ sampled = [k \in KeyCodes |-> FALSE]
  /\ events = 0
  /\ frames = 0

(* ---------------------------------------------------------------------- *)
(* The frame step (Player useFrame, App.jsx 147-246)                      *)
(* ---------------------------------------------------------------------- *)

B2N(b) == IF b THEN 1 ELSE 0

\* mutant of forwardAxis: the two keys added instead of subtracted
forwardAxisAdded(k) == B2N(k["KeyW"]) + B2N(k["KeyS"])

\* (keys.current['KeyW'] ? 1 : 0) - (keys.current['KeyS'] ? 1 : 0)
forwardAxis(k) == B2N(k["KeyW"]) - B2N(k["KeyS"])
\* (keys.current['KeyD'] ? 1 : 0) - (keys.current['KeyA'] ? 1 : 0)
strafeAxis(k) == B2N(k["KeyD"]) - B2N(k["KeyA"])

\* mutant of clampDt: dt used as given
clampDtMissing(dt) == dt

\* dt = Math.min(dt, 1 / 30)
clampDt(dt) == Min(dt, maxDt)

\* mutant of belowGround: the ground plane taken at y = 0
belowGroundAtZero(y) == Lt(y, Zero)

\* obj.position.y < 1
belowGround(y) == Lt(y, groundY)

\* mutant of floorLam: the metric factor used without its floor
floorLamMissing(lam) == lam

\* Math.max(lam, 1e-4)
floorLam(lam) == Max(lam, lamFloor)

\* the metric factor of the active manifold at chart position c
lamAt(mf, c) ==
  IF mf = "saddle" THEN saddleLambda(c)
  ELSE IF mf = "sphere" THEN sphereLambda(c)
  ELSE One

\* the embedded point of chart position c
embedAt(mf, c) ==
  IF mf = "saddle" THEN saddleEmbed(c)
  ELSE IF mf = "sphere" THEN stereoToSphere(c)
  ELSE V3Zero

\* The flat branch (150-195).  Each "\E v \in {e}" is one const / assignment of
\* the source, in the source's order; the key map is left as keysAfter.
FlatFrameWith(dt0, keysAfter) ==
  /\ mode = "euclid"
  /\ \E dt \in {clampDt(dt0)} :
     \E forward \in {Fl(forwardAxis(keys), 0)} :
     \E strafe \in {Fl(strafeAxis(keys), 0)} :
     \E jump \in {keys["Space"]} :
     \E dir \in {Normalize3(<<camDir[1], Zero, camDir[3]>>)} :
     \E right \in {Negate3(Cross3(dir, <<Zero, One, Zero>>))} :
     \E move0 \in {Add3(Scale3(dir, forward), Scale3(right, strafe))} :
     \E move \in {IF Gt(LengthSq3(move0), Zero)
                  THEN Scale3(Normalize3(move0), speed) ELSE move0} :
     \E vy0 \in {Add(vel[2], Mul(gravity, dt))} :
     \E jumps \in {jump /\ onGround} :
     \E vy1 \in {IF jumps THEN jumpSpeed ELSE vy0} :
     \E px \in {Add(position[1], Mul(move[1], dt))} :
     \E py \in {Add(position[2], Mul(vy1, dt))} :
     \E pz \in {Add(position[3], Mul(move[3], dt))} :
     \E hit \in {belowGround(py)} :
     \E p2 \in {<<px, IF hit THEN groundY ELSE py, pz>>} :
       /\ position' = p2
       /\ vel' = <<move[1], IF hit THEN Zero ELSE vy1, move[3]>>
       /\ onGround' = (IF hit THEN TRUE ELSE IF jumps THEN FALSE ELSE onGround)
       /\ pose' = [pos |-> p2, yaw |-> Atan2(dir[1], dir[3])]
  /\ keys' = keysAfter
  /\ sampled' = keys
  /\ UNCHANGED <<mode, manifold, showGeodesics, chart, camDir>>

\* the chart displacement of a curved frame with non-zero input (210-222):
\* want normalised, turned by yaw, normalised and scaled by (speed / max(lam, 1e-4)) * dt
chartStep(want, yaw, lam, dt) ==
  Only({ Scale2(Normalize2(<< Sub(Mul(CosA(a), w[1]), Mul(SinA(a), w[2])),
                              Add(Mul(SinA(a), w[1]), Mul(CosA(a), w[2])) >>),
                Mul(Div(speed, floorLam(lam)), dt)) :
         w \in {Normalize2(want)}, a \in {yaw} })

\* The curved branch (196-245); velocity and grounded flag are left as velAfter,
\* groundAfter.
CurvedFrameWith(dt0, velAfter, groundAfter) ==
  /\ mode # "euclid"
  /\ \E dt \in {clampDt(dt0)} :
     \E want \in {<<Fl(strafeAxis(keys), 0), Fl(forwardAxis(keys), 0)>>} :
     \E lam \in {lamAt(manifold, chart)} :
     \E yaw \in {Atan2(camDir[1], camDir[3])} :
     \E du \in {IF Gt(LengthSq2(want), Zero) THEN chartStep(want, yaw, lam, dt)
                ELSE <<Zero, Zero>>} :
     \E c2 \in {Add2(chart, du)} :
     \E p \in {embedAt(manifold, c2)} :
       /\ chart' = c2
       /\ position' = p
       /\ pose' = [pos |-> p, yaw |-> yaw]
  /\ vel' = velAfter
  /\ onGround' = groundAfter
  /\ sampled' = keys
  /\ UNCHANGED <<mode, manifold, showGeodesics, keys, camDir>>

\* mutant of FlatFrame: the step drains the key map it read
FlatFrameDraining(dt) == FlatFrameWith(dt, [k \in KeyCodes |-> FALSE])

\* the flat branch of useFrame: the key map is read, not written
FlatFrame(dt) == FlatFrameWith(dt, keys)

\* mutant of CurvedFrame: gravity integrated in curved mode too
CurvedFrameWithGravity(dt) ==
  CurvedFrameWith(dt, <<vel[1], Add(vel[2], Mul(gravity, clampDt(dt))), vel[3]>>, onGround)

\* the curved branch of useFrame: vel.current and onGround.current are not touched
CurvedFrame(dt) == CurvedFrameWith(dt, vel, onGround)

\* the useFrame callback: one branch or the other
Frame(dt) == FlatFrame(dt) \/ CurvedFrame(dt)

(* ---------------------------------------------------------------------- *)
(* Input callbacks and buttons                                            *)
(* ---------------------------------------------------------------------- *)

\* window keydown: keys.current[e.code] = true
KeyDown(k) ==
  /\ keys' = [keys EXCEPT ![k] = TRUE]
  /\ UNCHANGED <<mode, manifold, showGeodesics, pose, position, vel, chart,
                 onGround, camDir, sampled>>

\* window keyup: keys.current[e.code] = false
KeyUp(k) ==
  /\ keys' = [keys EXCEPT ![k] = FALSE]
  /\ UNCHANGED <<mode, manifold, showGeodesics, pose, position, vel, chart,
                 onGround, camDir, sampled>>

\* the Flat / Riemann world buttons: setMode(m).  The Player stays mounted and
\* its reset effect has no dependencies, so nothing of the Player changes.
SetMode(m) ==
  /\ m # mode
  /\ mode' = m
  /\ UNCHANGED <<manifold, showGeodesics, pose, keys, position, vel, chart,
                 onGround, camDir, sampled>>

\* the Sphere / Saddle buttons, rendered in curved mode only: setManifold(m)
SetManifold(m) ==
  /\ mode # "euclid"
  /\ m # manifold
  /\ manifold' = m
  /\ UNCHANGED <<mode, showGeodesics, pose, keys, position, vel, chart,
                 onGround, camDir, sampled>>

\* the Geodesics button, rendered in curved mode only
ToggleGeodesics ==
  /\ mode # "euclid"
  /\ showGeodesics' = ~showGeodesics
  /\ UNCHANGED <<mode, manifold, pose, keys, position, vel, chart,
                 onGround, camDir, sampled>>

\* OrbitControls: a drag turns the camera
Drag(d) ==
  /\ d # camDir
  /\ camDir' = d
  /\ UNCHANGED <<mode, manifold, showGeodesics, pose, keys, position, vel,
                 chart, onGround, sampled>>

\* the bounds on frames and events followed
CountFrame == frames < MaxFrames /\ frames' = frames + 1 /\ UNCHANGED events
CountEvent == events < MaxEvents /\ events' = events + 1 /\ UNCHANGED frames

\* Frames and events interleave freely; each runs to completion (one thread).
Next ==
  \/ \E dt \in DtInputs : CountFrame /\ FlatFrame(dt)
  \/ \E dt \in DtInputs : CountFrame /\ CurvedFrame(dt)
  \/ \E k \in KeyCodes : CountEvent /\ KeyDown(k)
  \/ \E k \in KeyCodes : CountEvent /\ KeyUp(k)
  \/ \E m \in Modes : CountEvent /\ SetMode(m)
  \/ \E m \in Manifolds : CountEvent /\ SetManifold(m)
  \/ CountEvent /\ ToggleGeodesics
  \/ \E d \in CamDirs : CountEvent /\ Drag(d)

Spec == Init /\ [][Next]_vars

(* ---------------------------------------------------------------------- *)
(* The curved stepper on its own: frames from any of a few chart          *)
(* positions, key maps and headings, on either manifold.                  *)
(* ---------------------------------------------------------------------- *)

\* chart positions the walk can be at: the origin, two points of the unit
\* circle, and a far point where the sphere's metric factor 2 / (1 + r^2)
\* is below 1e-4
ChartInputs ==
  { <<Zero, Zero>>, <<One, Zero>>, <<Dec(6, 1), Dec(-8, 1)>>, <<Fl(150, 0), Zero>> }

\* key maps with Space released
MoveKeyMaps == { k \in [KeyCodes -> BOOLEAN] : ~k["Space"] }

InitChart ==
  /\ mode = "riemann"
  /\ manifold \in Manifolds
  /\ showGeodesics = TRUE
  /\ keys \in MoveKeyMaps
  /\ sampled = keys
  /\ camDir \in CamDirs
  /\ chart \in ChartInputs
  /\ position = embedAt(manifold, chart)
  /\ pose = [pos |-> position, yaw |-> Atan2(camDir[1], camDir[3])]
  /\ vel = V3Zero
  /\ onGround = TRUE
  /\ events = 0
  /\ frames = 0

NextChart == \E dt \in DtInputs : CountFrame /\ CurvedFrame(dt)

SpecChart == InitChart /\ [][NextChart]_vars

(* ---------------------------------------------------------------------- *)
(* The flat stepper left alone: no key is held and frames keep coming.    *)
(* ---------------------------------------------------------------------- *)

\* positions with y >= 1 the player can be at: on the ground at the spawn
\* column, the spawn point itself, and in the air elsewhere
RestStarts ==
  { <<Zero, One, Fl(4, 0)>>,
    <<Zero, Dec(12, 1), Fl(4, 0)>>,
    <<One, Dec(18, 1), Fl(3, 0)>> }

\* vertical velocities: at rest, just after a jump, falling
RestSpeeds == { Zero, jumpSpeed, Fl(-2, 0) }

InitRest ==
  /\ mode = "euclid"
  /\ manifold = "sphere"
  /\ showGeodesics = TRUE
  /\ keys = [k \in KeyCodes |-> FALSE]
  /\ sampled = keys
  /\ camDir \in CamDirs
  /\ chart = <<Zero, Zero>>
  /\ position \in RestStarts
  /\ pose = [pos |-> position, yaw |-> Atan2(camDir[1], camDir[3])]
  /\ \E vy \in RestSpeeds : vel = <<Zero, vy, Zero>>
  /\ onGround \in BOOLEAN
  /\ events = 0
  /\ frames = 0

\* a frame with positive dt
TickingFrame ==
  \E dt \in DtInputs \ {Zero} : FlatFrame(dt) /\ UNCHANGED <<events, frames>>

NextRest == \E dt \in DtInputs : FlatFrame(dt) /\ UNCHANGED <<events, frames>>

\* the render loop calls the frame callback on every animation frame, and time
\* passes between two of them
SpecRest == InitRest /\ [][NextRest]_vars /\ WF_vars(TickingFrame)

(* ---------------------------------------------------------------------- *)
(* Geodesic tracers (sphere only): three great circles through the pose,  *)
(* at yaw - 0.6, yaw and yaw + 0.6, each sampled at N + 1 points.         *)
(* ---------------------------------------------------------------------- *)

\* the power series of sine (from n = 2) and cosine (from n = 1): each term
\* is the one before times -x^2 / (n (n + 1)); |x| <= 0.65 pi here, so
\* the terms beyond x^17 / 17! are below the rounding of the sum
RECURSIVE Series(_, _, _, _)
Series(term, x2, n, acc) ==
  IF n > 16 THEN acc
  ELSE Only({ Series(t, q, n + 2, Add(a, t)) :
              t \in {Neg(Div(Mul(term, x2), Fl(n * (n + 1), 0)))},
              q \in {x2}, a \in {acc} })

MathSin(x) == Only({ Series(a, Mul(a, a), 2, a) : a \in {x} })
MathCos(x) == Only({ Series(One, Mul(a, a), 1, One) : a \in {x} })

Pi == Dec(3142, 3)

\* the angles -0.6, 0 and 0.6: sin 0.6 = 0.5646, cos 0.6 = 0.8253
offsets ==
  << <<Dec(-5646, 4), Dec(8253, 4)>>, AngleZero, <<Dec(5646, 4), Dec(8253, 4)>> >>

arc == Mul(Pi, Dec(13, 1))

N == 220

\* the values new Vector3().randomDirection() may take: unit vectors
RandDirs ==
  { <<One, Zero, Zero>>, <<Zero, One, Zero>>, <<Zero, Zero, Neg(One)>>,
    <<Dec(6, 1), Zero, Dec(8, 1)>> }

\* the values Math.random() may take, in [0, 1)
RandScalars == { Zero, Dec(5, 1) }

\* the unit tangent v at p0 towards yaw; when the projected direction
\* vanishes, a direction built from the random draws r and rho
tangentAt(p0, yaw, r, rho) ==
  Only({ Normalize3(IF Lt(LengthSq3(t), Dec(1, 6))
                    THEN Normalize3(Sub3(r, Scale3(p0, rho)))
                    ELSE t) :
         t \in { Only({ Sub3(dirFlat, Scale3(p0, Dot3(dirFlat, p0))) :
                        dirFlat \in {<<SinA(yaw), Zero, CosA(yaw)>>} }) } })

\* the i-th sample of the circle through p0 with tangent v
samplePoint(p0, v, i) ==
  Only({ Normalize3(Add3(Scale3(p0, MathCos(s)), Scale3(v, MathSin(s)))) :
         s \in {Mul(Sub(Div(Fl(i, 0), Fl(N, 0)), Dec(5, 1)), arc)} })

makeGreatCircle(p0, yaw, r, rho) ==
  Only({ [i \in 0 .. N |-> samplePoint(q, v, i)] :
         q \in {p0}, v \in {tangentAt(p0, yaw, r, rho)} })

\* the point sets rendered for the pose ps; r and rho are the random draws
GeodesicTracers(enabled, mf, ps, r, rho) ==
  IF ~enabled \/ mf # "sphere" THEN << >>
  ELSE Only({ [k \in 1 .. 3 |-> makeGreatCircle(p, AngleAdd(ps.yaw, offsets[k]), r, rho)] :
              p \in {Normalize3(ps.pos)} })

\* the enabled prop the App passes
tracersEnabled == showGeodesics /\ mode # "euclid" /\ manifold = "sphere"

(* ---------------------------------------------------------------------- *)
(* Properties                                                             *)
(* ---------------------------------------------------------------------- *)

AbsF(x) == Only({ IF a[1] < 0 THEN Neg(a) ELSE a : a \in {x} })

\* |a - b| <= tol
Near(a, b, tol) == ~Gt(AbsF(Sub(a, b)), tol)
Near2(u, v, tol) == Near(u[1], v[1], tol) /\ Near(u[2], v[2], tol)
Near3(u, v, tol) == Near(u[1], v[1], tol) /\ Near(u[2], v[2], tol) /\ Near(u[3], v[3], tol)

\* this step is a frame
FrameStep == frames' # frames

\* the desired-direction input of the key map k is zero
NoInput(k) == k["KeyW"] = k["KeyS"] /\ k["KeyD"] = k["KeyA"]

\* C1 (as claimed): every switch of mode or manifold leaves the chart position
\* at the origin (0, 0), whatever it was before the switch.
C1_SwitchResetsChart ==
  [][(mode' # mode \/ manifold' # manifold) => chart' = <<Zero, Zero>>]_vars

\* the scenario of C3: sphere, chart (0, 0), W alone of the movement keys, yaw 0
C3_Scenario ==
  /\ mode # "euclid"
  /\ manifold = "sphere"
  /\ chart = <<Zero, Zero>>
  /\ keys["KeyW"] /\ ~keys["KeyS"] /\ ~keys["KeyA"] /\ ~keys["KeyD"]
  /\ Atan2(camDir[1], camDir[3]) = AngleZero

\* C3 (as claimed): in the scenario a step invoked with dt = 0.1 displaces the
\* chart by (0, 0.14) and publishes embedSphere(0, 0.14).
C3_StepOfTenthSecond ==
  [][(C3_Scenario /\ FrameStep /\ Frame(Dec(1, 1)))
       => /\ Near2(Sub2(chart', chart), <<Zero, Dec(14, 2)>>, Dec(1, 3))
          /\ Near3(pose'.pos, stereoToSphere(<<Zero, Dec(14, 2)>>), Dec(1, 3))]_vars

\* C3 (amended): in the scenario lambda is 2 and a step invoked with dt = 0.1
\* integrates the clamped dt = 1/30: it displaces the chart by (0, 1.4 / 30), about
\* (0, 0.0467), and publishes embedSphere(0, 0.0467), about (0, 0.0931, -0.9957).
C3_StepOfClampedDt ==
  [][(C3_Scenario /\ FrameStep /\ Frame(Dec(1, 1)))
       => /\ lamAt(manifold, chart) = Fl(2, 0)
          /\ Near2(Sub2(chart', chart), <<Zero, Dec(4667, 5)>>, Dec(5, 5))
          /\ Near3(pose'.pos, <<Zero, Dec(9313, 5), Dec(-9957, 4)>>, Dec(5, 4))]_vars

\* a state right after the scenario's step: one frame, W sampled, the chart moved
\* along v from the origin
C3_Witness ==
  /\ frames = 1
  /\ mode # "euclid" /\ manifold = "sphere"
  /\ sampled["KeyW"] /\ ~sampled["KeyS"] /\ ~sampled["KeyA"] /\ ~sampled["KeyD"]
  /\ Atan2(camDir[1], camDir[3]) = AngleZero
  /\ chart[1] = Zero /\ Gt(chart[2], Zero)

\* C4 (as claimed): a step with zero desired-direction input leaves the chart
\* position unchanged in curved mode and the whole Cartesian position unchanged
\* in flat mode.
C4_ZeroInputKeepsPosition ==
  [][(FrameStep /\ NoInput(keys))
       => IF mode = "euclid" THEN position' = position ELSE chart' = chart]_vars

\* C4 (amended): a step with zero desired-direction input leaves the chart
\* position unchanged in curved mode and the horizontal coordinates x and z
\* unchanged in flat mode (y still follows gravity, jump and the ground clamp).
C4_ZeroInputKeepsChartAndXZ ==
  [][(FrameStep /\ NoInput(keys))
       => IF mode = "euclid"
          THEN position'[1] = position[1] /\ position'[3] = position[3]
          ELSE chart' = chart]_vars

\* a frame has run with W and S both held (they cancel)
C4_Witness == frames > 0 /\ sampled["KeyW"] /\ sampled["KeyS"] /\ NoInput(sampled)

\* C5 (as claimed): a flat step with Space held and the grounded flag set ends
\* with vertical velocity jumpSpeed and the grounded flag cleared.
C5_JumpImpulse ==
  [][(FrameStep /\ mode = "euclid" /\ keys["Space"] /\ onGround)
       => vel'[2] = jumpSpeed /\ ~onGround']_vars

\* C8 (as claimed): in flat mode the grounded flag is set only when the entity
\* rests on the ground plane y = 1.
C8_GroundedOnlyOnGround ==
  (mode = "euclid" /\ onGround) => position[2] = groundY

\* C9: a curved step leaves velocity and grounded flag unchanged, a flat step
\* leaves the chart position unchanged.
C9_DisjointState ==
  [][FrameStep
       => IF mode = "euclid" THEN chart' = chart
          ELSE vel' = vel /\ onGround' = onGround]_vars

\* a curved frame has run with Space held: the position is the embedded point,
\* below the flat ground plane
C9_Witness ==
  /\ mode # "euclid"
  /\ frames > 0
  /\ sampled["Space"]
  /\ position = embedAt(manifold, chart)
  /\ Lt(position[2], groundY)

\* C10: a step leaves the key map as it is; what it applies follows the keys held
\* when it runs: with a movement key held it moves (flat: x or z, curved: the
\* chart) on every step of positive dt, and with no key held it moves nothing
\* and starts no jump, whatever was pressed and released before.
C10_KeysSampledNotDrained ==
  /\ [][FrameStep => keys' = keys]_vars
  /\ [][\A dt \in DtInputs :
          (FrameStep /\ ~NoInput(keys) /\ Gt(dt, Zero) /\ Frame(dt))
            => IF mode = "euclid"
               THEN <<position'[1], position'[3]>> # <<position[1], position[3]>>
               ELSE chart' # chart]_vars
  /\ [][(FrameStep /\ \A k \in KeyCodes : ~keys[k])
          => /\ chart' = chart
             /\ mode = "euclid" =>
                  /\ position'[1] = position[1] /\ position'[3] = position[3]
                  /\ onGround => onGround']_vars

\* W pressed once and held over two flat frames: both frames moved the player
C10_Witness ==
  /\ mode = "euclid"
  /\ events = 1 /\ frames = 2
  /\ keys["KeyW"] /\ sampled["KeyW"]
  /\ Lt(position[3], Dec(385, 2))

\* C7: whenever the tracers are drawn, every sample point of every curve has
\* Euclidean norm 1 (within 1e-2, the rounding of this arithmetic), whatever
\* the pose and whatever the random draws of the fallback tangent.
C7_SamplesOnUnitSphere ==
  tracersEnabled =>
    \A r \in RandDirs, rho \in RandScalars :
      \A k \in 1 .. 3 : \A i \in 0 .. N :
        Near(LengthSq3(GeodesicTracers(tracersEnabled, manifold, pose, r, rho)[k][i]),
             One, Dec(1, 2))

\* the chart displacement the claim prescribes for a step invoked with dt:
\* the normalized input (strafe, forward), rotated by the camera yaw, times
\* (speed / max(lambda, 1e-4)) * min(dt, 1/30), lambda taken before the step
C2_Prescribed(dt) ==
  Only({ Scale2(<< Sub(Mul(CosA(a), w[1]), Mul(SinA(a), w[2])),
                   Add(Mul(SinA(a), w[1]), Mul(CosA(a), w[2])) >>,
                Mul(Div(Dec(28, 1), Max(lamAt(manifold, chart), Dec(1, 4))),
                    Min(dt, Div(One, Fl(30, 0))))) :
         w \in {Normalize2(<<Fl(strafeAxis(keys), 0), Fl(forwardAxis(keys), 0)>>)},
         a \in {Atan2(camDir[1], camDir[3])} })

\* the rounding allowed on a displacement d added to the chart position c:
\* half a percent of |d| and a thousandth of the coordinates it is added to
C2_Tol(d, c) ==
  Add(Mul(Dec(5, 3), Sqrt(LengthSq2(d))),
      Mul(Dec(1, 3), Add(Sqrt(LengthSq2(c)), Sqrt(LengthSq2(d)))))

\* C2: a curved step with non-zero desired-direction input adds to the chart
\* position the prescribed displacement (magnitude (speed / max(lambda, 1e-4))
\* * min(dt, 1/30), direction the normalized input rotated by the yaw), and
\* that displacement is no longer than speed * (1/30) / 1e-4.
C2_ChartDisplacement ==
  [][\A dt \in DtInputs :
       (CurvedFrame(dt) /\ ~NoInput(keys))
         => /\ Near2(Sub2(chart', chart), C2_Prescribed(dt),
                     C2_Tol(C2_Prescribed(dt), chart))
            /\ ~Gt(Sqrt(LengthSq2(Sub2(chart', chart))),
                   Mul(Dec(1005, 3), Div(Mul(Dec(28, 1), Div(One, Fl(30, 0))), Dec(1, 4))))]_vars

\* a step on the sphere has left the far point (150, 0), where the floor on
\* lambda applies, with a movement key sampled
C2_Witness ==
  /\ frames > 0 /\ mode # "euclid" /\ manifold = "sphere"
  /\ ~NoInput(sampled)
  /\ Gt(LengthSq2(chart), Fl(40000, 0))

\* the player rests on the ground plane
C6_AtRest == position[2] = One /\ vel[2] = Zero /\ onGround

\* C6: in flat mode with no key held and frames of positive dt kept coming,
\* from any start with y >= 1 the player eventually rests (y = 1 exactly,
\* vertical velocity 0, grounded) for good, every step taken at rest ends at
\* rest, and no step changes position.x or position.z.
C6_SettlesOnGround ==
  /\ <>[]C6_AtRest
  /\ [][C6_AtRest => C6_AtRest']_vars
  /\ [][position'[1] = position[1] /\ position'[3] = position[3]]_vars

\* the player that started in the air at (1, 1.8, 3) rests on the ground at
\* the same x and z
C6_Witness == C6_AtRest /\ position = <<One, One, Fl(3, 0)>>

====
